---- MODULE Spec2Model ----
(***************************************************************************)
(* The intent-application engine of the road planner                       *)
(* (game/lanes_and_cars/planning/current_plan/intent.rs).                  *)
(*                                                                         *)
(* apply_intent maps a PlanStep (plan_delta, selections, intent), the      *)
(* optional committed strokes and the settings to the next PlanStep.       *)
(*                                                                         *)
(* Geometry.  Points and vectors are pairs of integers, directions are the *)
(* four axis unit vectors, and a stroke is well formed when every node     *)
(* lies straight ahead of the one before it.  On this lattice every        *)
(* quantity the handlers compute (offsets by LANE_DISTANCE, arc lengths,   *)
(* projections) is an integer and is computed exactly as the code does.    *)
(* The curve library (descartes) and lane_stroke.rs are not part of the    *)
(* file modelled here; their operations are modelled from the description  *)
(* of the geometry capability and restricted to straight strokes.          *)
(***************************************************************************)
EXTENDS Integers, Sequences, FiniteSets, TLC

LANE_DISTANCE == 5
CENTER_LANE_DISTANCE == 6

(***************************************************************************)
(* Bounds of the model.                                                    *)
(***************************************************************************)
MaxCalls == 3
MaxNewStrokes == 3

----------------------------------------------------------------------------
(* Vectors (descartes V2 / P2)                                             *)

VAdd(a, b) == <<a[1] + b[1], a[2] + b[2]>>
VSub(a, b) == <<a[1] - b[1], a[2] - b[2]>>
VScale(k, v) == <<k * v[1], k * v[2]>>
VNeg(v) == <<-v[1], -v[2]>>
Dot(a, b) == a[1] * b[1] + a[2] * b[2]
NormSq(v) == Dot(v, v)
Abs(n) == IF n < 0 THEN -n ELSE n
Signum(n) == IF n < 0 THEN -1 ELSE 1

\* WithUniqueOrthogonal::orthogonal: the right-hand perpendicular.
Orthogonal(v) == <<v[2], -v[1]>>

\* normalize, for the axis-parallel vectors of the lattice.
Normalize(v) == <<IF v[1] > 0 THEN 1 ELSE IF v[1] < 0 THEN -1 ELSE 0,
                  IF v[2] > 0 THEN 1 ELSE IF v[2] < 0 THEN -1 ELSE 0>>

\* RelativeToBasis: coordinates of v in the basis (dir, orthogonal(dir)),
\* and back.
ToBasis(v, dir) == <<Dot(v, dir), Dot(v, Orthogonal(dir))>>
FromBasis(c, dir) == VAdd(VScale(c[1], dir), VScale(c[2], Orthogonal(dir)))

\* RoughlyComparable::is_roughly_within with a tolerance of whole units.
IsRoughlyWithin(a, b, tolerance) == NormSq(VSub(a, b)) <= tolerance * tolerance

\* is_roughly_within with a tolerance below the lattice spacing (0.1,
\* MIN_START_TO_END): only equal lattice points are that close.
IsRoughlyEqual(a, b) == NormSq(VSub(a, b)) = 0

----------------------------------------------------------------------------
(* Options and dictionaries                                                *)

\* Option<T>: the empty sequence is None, a one-element sequence is Some.
None == << >>
Some(x) == <<x>>
IsSome(o) == Len(o) = 1
Unwrap(o) == o[1]

\* CDict<K, V>: a sequence of <<key, value>> pairs with unique keys, in
\* insertion order.
DictKeys(d) == {d[k][1] : k \in DOMAIN d}
DictHas(d, key) == \E k \in DOMAIN d : d[k][1] = key
DictGet(d, key) == d[CHOOSE k \in DOMAIN d : d[k][1] = key][2]
DictInsert(d, key, value) ==
    IF DictHas(d, key)
    THEN [k \in DOMAIN d |-> IF d[k][1] = key THEN <<key, value>> ELSE d[k]]
    ELSE Append(d, <<key, value>>)

----------------------------------------------------------------------------
(* Strokes (lane_stroke.rs): a stroke is its sequence of nodes             *)

LaneStrokeNode(p, d) == [position |-> p, direction |-> d]

with_single_node(node) == <<node>>

\* One consecutive node pair yields a valid segment: the second node lies
\* straight ahead of the first and keeps its direction.
SegmentValid(n1, n2) ==
    /\ n2.direction = n1.direction
    /\ Dot(VSub(n2.position, n1.position), Orthogonal(n1.direction)) = 0
    /\ Dot(VSub(n2.position, n1.position), n1.direction) > 0

well_formed(nodes) ==
    /\ Len(nodes) >= 2
    /\ \A k \in 1..(Len(nodes) - 1) : SegmentValid(nodes[k], nodes[k + 1])

\* LaneStroke::new: Ok(stroke) as Some, Err as None.
LaneStroke_new(nodes) == IF well_formed(nodes) THEN Some(nodes) ELSE None

\* Arc length of node k from the start of the stroke's path.
NodeDistance(stroke, k) ==
    Abs(Dot(VSub(stroke[k].position, stroke[1].position), stroke[1].direction))

path_length(stroke) == NodeDistance(stroke, Len(stroke))
path_along(stroke, d) == VAdd(stroke[1].position, VScale(d, stroke[1].direction))
path_direction_along(stroke, d) == stroke[1].direction

\* Curve::project: the arc length of the foot of the point on the path,
\* None when the foot falls outside the path.
path_project(stroke, point) ==
    LET d == Dot(VSub(point, stroke[1].position), stroke[1].direction)
    IN  IF 0 <= d /\ d <= path_length(stroke) THEN Some(d) ELSE None

\* LaneStroke::subsection: the stroke between two arc lengths, None when
\* nothing of the path lies between them.
subsection(stroke, start, end) ==
    LET lo == IF start < 0 THEN 0 ELSE start
        hi == IF end > path_length(stroke) THEN path_length(stroke) ELSE end
        inner == SelectSeq([k \in DOMAIN stroke |-> <<k, stroke[k]>>],
                            LAMBDA e : lo < NodeDistance(stroke, e[1])
                                       /\ NodeDistance(stroke, e[1]) < hi)
    IN  IF lo < hi
        THEN Some(<<LaneStrokeNode(path_along(stroke, lo), path_direction_along(stroke, lo))>>
                  \o [k \in DOMAIN inner |-> inner[k][2]]
                  \o <<LaneStrokeNode(path_along(stroke, hi), path_direction_along(stroke, hi))>>)
        ELSE None

\* RoughlyComparable for strokes with tolerance 0.1: node by node.
stroke_is_roughly_within(a, b) ==
    /\ Len(a) = Len(b)
    /\ \A k \in DOMAIN a : /\ IsRoughlyEqual(a[k].position, b[k].position)
                           /\ IsRoughlyEqual(a[k].direction, b[k].direction)

\* The margin between a moved sub-range and the connector node synthesized
\* next to it.
CONNECTOR_MARGIN == 5

\* LaneStroke::with_subsection_moved: <<nodes before, before connector,
\* moved sub-range, after connector, nodes after>>.  A connector is
\* synthesized on the unmoved path, CONNECTOR_MARGIN away from the
\* sub-range, when nodes remain on that side.
with_subsection_moved(stroke, start, end, delta) ==
    LET idx == [k \in DOMAIN stroke |-> k]
        before_idx == SelectSeq(idx, LAMBDA k : NodeDistance(stroke, k) < start - CONNECTOR_MARGIN)
        after_idx == SelectSeq(idx, LAMBDA k : NodeDistance(stroke, k) > end + CONNECTOR_MARGIN)
        sub == subsection(stroke, start, end)
        moved == IF IsSome(sub)
                 THEN [k \in DOMAIN Unwrap(sub) |->
                          LaneStrokeNode(VAdd(Unwrap(sub)[k].position, delta),
                                         Unwrap(sub)[k].direction)]
                 ELSE << >>
    IN  << [k \in DOMAIN before_idx |-> stroke[before_idx[k]]],
           IF before_idx = << >> THEN None
           ELSE Some(LaneStrokeNode(path_along(stroke, start - CONNECTOR_MARGIN),
                                    path_direction_along(stroke, start - CONNECTOR_MARGIN))),
           moved,
           IF after_idx = << >> THEN None
           ELSE Some(LaneStrokeNode(path_along(stroke, end + CONNECTOR_MARGIN),
                                    path_direction_along(stroke, end + CONNECTOR_MARGIN))),
           [k \in DOMAIN after_idx |-> stroke[after_idx[k]]] >>

\* Segment::arc_with_direction(start, direction, end).end_direction(): the
\* start direction mirrored at the chord.  Exact for the chords of the
\* lattice (parallel, perpendicular or diagonal to the direction).
arc_end_direction(start, direction, end) ==
    LET chord == VSub(end, start)
        n == NormSq(chord)
        twice == VSub(VScale(2 * Dot(chord, direction), chord), VScale(n, direction))
    IN  << twice[1] \div n, twice[2] \div n >>

----------------------------------------------------------------------------
(* The data model (current_plan/mod.rs, plan.rs)                           *)

\* SelectableStrokeRef: New(index into new_strokes, from 0) or
\* Built(reference into the committed strokes).
New(i) == <<"New", i>>
Built(r) == <<"Built", r>>

\* Intent
Intent_None == [tag |-> "None"]
Intent_NewRoad(points) == [tag |-> "NewRoad", points |-> points]
Intent_ContinueRoad(continue_from, additional_points, start_reference_point) ==
    [tag |-> "ContinueRoad", continue_from |-> continue_from,
     additional_points |-> additional_points,
     start_reference_point |-> start_reference_point]
Intent_Select(selection_ref, start, end) ==
    [tag |-> "Select", selection_ref |-> selection_ref, start |-> start, end |-> end]
Intent_MaximizeSelection == [tag |-> "MaximizeSelection"]
Intent_MoveSelection(delta) == [tag |-> "MoveSelection", delta |-> delta]
Intent_DeleteSelection == [tag |-> "DeleteSelection"]
Intent_CreateNextLane == [tag |-> "CreateNextLane"]

PlanDelta(new_strokes, strokes_to_destroy) ==
    [new_strokes |-> new_strokes, strokes_to_destroy |-> strokes_to_destroy]

PlanStep(plan_delta, selections, intent) ==
    [plan_delta |-> plan_delta, selections |-> selections, intent |-> intent]

\* The result of a call that aborts (expect, unwrap, index out of bounds).
Panic == [panic |-> TRUE]
IsPanic(r) == "panic" \in DOMAIN r

\* SelectableStrokeRef::get_stroke
get_stroke(ref, plan_delta, still_built_strokes) ==
    IF ref[1] = "New" THEN plan_delta.new_strokes[ref[2] + 1]
    ELSE DictGet(still_built_strokes, ref[2])

----------------------------------------------------------------------------
(* ContinueRoad and NewRoad                                                *)

\* The inner loop taking the node away from the other end when the insertion
\* is undone.
RECURSIVE continue_strokes_undoing_far_end(_, _, _, _)
continue_strokes_undoing_far_end(new_strokes, continue_from, previous_reference_point, next_reference_point) ==
    IF continue_from = << >> THEN new_strokes
    ELSE
      LET stroke_idx == Head(continue_from)[1]
          mode == Head(continue_from)[2]
          stroke == new_strokes[stroke_idx + 1]
          node == IF mode = "Append" THEN stroke[Len(stroke)] ELSE stroke[1]
          next_direction ==
              IF mode = "Append"
              THEN arc_end_direction(previous_reference_point, node.direction,
                                     next_reference_point)
              ELSE VNeg(arc_end_direction(previous_reference_point, VNeg(node.direction),
                                          next_reference_point))
          next_position ==
              VAdd(next_reference_point,
                   FromBasis(ToBasis(VSub(node.position, previous_reference_point),
                                     node.direction),
                             next_direction))
          next_node == LaneStrokeNode(next_position, next_direction)
          inserted == IF mode = "Append" THEN Append(stroke, next_node)
                      ELSE <<next_node>> \o stroke
          undone == IF mode = "Append" THEN Tail(inserted)
                    ELSE SubSeq(inserted, 1, Len(inserted) - 1)
          result == IF well_formed(inserted) THEN inserted ELSE undone
      IN  continue_strokes_undoing_far_end([new_strokes EXCEPT ![stroke_idx + 1] = result],
                                           Tail(continue_from), previous_reference_point,
                                           next_reference_point)

\* The inner loop leaving at the first stroke whose insertion is undone.
RECURSIVE continue_strokes_aborting(_, _, _, _)
continue_strokes_aborting(new_strokes, continue_from, previous_reference_point, next_reference_point) ==
    IF continue_from = << >> THEN new_strokes
    ELSE
      LET stroke_idx == Head(continue_from)[1]
          mode == Head(continue_from)[2]
          stroke == new_strokes[stroke_idx + 1]
          node == IF mode = "Append" THEN stroke[Len(stroke)] ELSE stroke[1]
          next_direction ==
              IF mode = "Append"
              THEN arc_end_direction(previous_reference_point, node.direction,
                                     next_reference_point)
              ELSE VNeg(arc_end_direction(previous_reference_point, VNeg(node.direction),
                                          next_reference_point))
          next_position ==
              VAdd(next_reference_point,
                   FromBasis(ToBasis(VSub(node.position, previous_reference_point),
                                     node.direction),
                             next_direction))
          next_node == LaneStrokeNode(next_position, next_direction)
          inserted == IF mode = "Append" THEN Append(stroke, next_node)
                      ELSE <<next_node>> \o stroke
      IN  IF well_formed(inserted)
          THEN continue_strokes_aborting([new_strokes EXCEPT ![stroke_idx + 1] = inserted],
                                         Tail(continue_from), previous_reference_point,
                                         next_reference_point)
          ELSE new_strokes

\* The inner loop of apply_continue_road: one reference point applied to the
\* strokes of continue_from, in order.
RECURSIVE continue_strokes(_, _, _, _)
continue_strokes(new_strokes, continue_from, previous_reference_point, next_reference_point) ==
    IF continue_from = << >> THEN new_strokes
    ELSE
      LET stroke_idx == Head(continue_from)[1]
          mode == Head(continue_from)[2]
          stroke == new_strokes[stroke_idx + 1]
          node == IF mode = "Append" THEN stroke[Len(stroke)] ELSE stroke[1]
          previous_position == node.position
          previous_direction == node.direction
          next_direction ==
              IF mode = "Append"
              THEN arc_end_direction(previous_reference_point, node.direction,
                                     next_reference_point)
              ELSE VNeg(arc_end_direction(previous_reference_point, VNeg(node.direction),
                                          next_reference_point))
          next_position ==
              VAdd(next_reference_point,
                   FromBasis(ToBasis(VSub(previous_position, previous_reference_point),
                                     previous_direction),
                             next_direction))
          next_node == LaneStrokeNode(next_position, next_direction)
          inserted == IF mode = "Append" THEN Append(stroke, next_node)
                      ELSE <<next_node>> \o stroke
          undone == IF mode = "Append" THEN SubSeq(inserted, 1, Len(inserted) - 1)
                    ELSE Tail(inserted)
          result == IF well_formed(inserted) THEN inserted ELSE undone
      IN  continue_strokes([new_strokes EXCEPT ![stroke_idx + 1] = result],
                           Tail(continue_from), previous_reference_point,
                           next_reference_point)

\* The outer loop leaving at the first point it would skip.
RECURSIVE continue_points_stopping(_, _, _, _)
continue_points_stopping(new_strokes, continue_from, additional_points, previous_reference_point) ==
    IF additional_points = << >> THEN new_strokes
    ELSE
      LET next_reference_point == Head(additional_points)
      IN  IF IsRoughlyEqual(next_reference_point, previous_reference_point)
          THEN new_strokes
          ELSE continue_points_stopping(continue_strokes(new_strokes, continue_from,
                                                         previous_reference_point,
                                                         next_reference_point),
                                        continue_from, Tail(additional_points),
                                        next_reference_point)

\* The outer loop of apply_continue_road over additional_points.
RECURSIVE continue_points(_, _, _, _)
continue_points(new_strokes, continue_from, additional_points, previous_reference_point) ==
    IF additional_points = << >> THEN new_strokes
    ELSE
      LET next_reference_point == Head(additional_points)
      IN  IF IsRoughlyEqual(next_reference_point, previous_reference_point)
          THEN continue_points(new_strokes, continue_from, Tail(additional_points),
                               previous_reference_point)
          ELSE continue_points(continue_strokes(new_strokes, continue_from,
                                                previous_reference_point,
                                                next_reference_point),
                               continue_from, Tail(additional_points),
                               next_reference_point)

\* The result built from the input by struct update: selections and intent
\* are kept.
apply_continue_road_keeping(continue_from, additional_points, start_reference_point, current) ==
    [current EXCEPT
        !.plan_delta.new_strokes = continue_points(current.plan_delta.new_strokes,
                                                   continue_from, additional_points,
                                                   start_reference_point)]

apply_continue_road(continue_from, additional_points, start_reference_point, current) ==
    LET new_plan_delta ==
            [current.plan_delta EXCEPT
                !.new_strokes = continue_points(current.plan_delta.new_strokes,
                                                continue_from, additional_points,
                                                start_reference_point)]
    IN  PlanStep(new_plan_delta, << >>, Intent_None)

\* NewRoad continuing the mirrored strokes at their last node as well.
apply_new_road_appending(points, current, settings) ==
    LET base_idx == Len(current.plan_delta.new_strokes)
        direction == Normalize(VSub(points[2], points[1]))
        n_per_side == settings.n_lanes_per_side
        offset(lane_idx) ==
            VScale(CENTER_LANE_DISTANCE \div 2 + LANE_DISTANCE * lane_idx,
                   Orthogonal(direction))
        forward_strokes ==
            [k \in 1..n_per_side |->
                with_single_node(LaneStrokeNode(VAdd(points[1], offset(k - 1)), direction))]
        forward_from == [k \in 1..n_per_side |-> <<base_idx + (k - 1), "Append">>]
        mirrored_strokes ==
            IF settings.create_both_sides
            THEN [k \in 1..n_per_side |->
                    with_single_node(LaneStrokeNode(VSub(points[1], offset(k - 1)),
                                                    VNeg(direction)))]
            ELSE << >>
        mirrored_from ==
            IF settings.create_both_sides
            THEN [k \in 1..n_per_side |-> <<base_idx + (k - 1) + n_per_side, "Append">>]
            ELSE << >>
        one_point_strokes == forward_strokes \o mirrored_strokes
        continue_from == forward_from \o mirrored_from
        new_new_strokes == current.plan_delta.new_strokes \o one_point_strokes
        current_with_new_strokes ==
            [current EXCEPT !.plan_delta.new_strokes = new_new_strokes]
    IN  apply_continue_road(continue_from, Tail(points), points[1],
                            current_with_new_strokes)

apply_new_road(points, current, settings) ==
    LET base_idx == Len(current.plan_delta.new_strokes)
        direction == Normalize(VSub(points[2], points[1]))
        n_per_side == settings.n_lanes_per_side
        offset(lane_idx) ==
            VScale(CENTER_LANE_DISTANCE \div 2 + LANE_DISTANCE * lane_idx,
                   Orthogonal(direction))
        forward_strokes ==
            [k \in 1..n_per_side |->
                with_single_node(LaneStrokeNode(VAdd(points[1], offset(k - 1)), direction))]
        forward_from == [k \in 1..n_per_side |-> <<base_idx + (k - 1), "Append">>]
        mirrored_strokes ==
            IF settings.create_both_sides
            THEN [k \in 1..n_per_side |->
                    with_single_node(LaneStrokeNode(VSub(points[1], offset(k - 1)),
                                                    VNeg(direction)))]
            ELSE << >>
        mirrored_from ==
            IF settings.create_both_sides
            THEN [k \in 1..n_per_side |-> <<base_idx + (k - 1) + n_per_side, "Prepend">>]
            ELSE << >>
        one_point_strokes == forward_strokes \o mirrored_strokes
        continue_from == forward_from \o mirrored_from
        new_new_strokes == current.plan_delta.new_strokes \o one_point_strokes
        current_with_new_strokes ==
            [current EXCEPT !.plan_delta.new_strokes = new_new_strokes]
    IN  apply_continue_road(continue_from, Tail(points), points[1],
                            current_with_new_strokes)

----------------------------------------------------------------------------
(* Select and MaximizeSelection                                            *)

\* new_strokes enumerated as New references, chained with the committed
\* strokes as Built references.
all_strokes(plan_delta, still_built_strokes) ==
    [k \in DOMAIN plan_delta.new_strokes |-> <<New(k - 1), plan_delta.new_strokes[k]>>]
    \o [k \in DOMAIN still_built_strokes |->
            <<Built(still_built_strokes[k][1]), still_built_strokes[k][2]>>]

Min(a, b) == IF a < b THEN a ELSE b
Max(a, b) == IF a > b THEN a ELSE b

\* The body of the loop taking strokes of the opposite direction whatever
\* select_opposite says.
additional_selection_either_way(other, selection_ref, stroke, start, end, settings) ==
    LET other_ref == other[1]
        other_stroke == other[2]
        start_position == path_along(stroke, start)
        start_direction == path_direction_along(stroke, start)
        end_position == path_along(stroke, end)
        end_direction == path_direction_along(stroke, end)
        start_on_other_distance == path_project(other_stroke, start_position)
        end_on_other_distance == path_project(other_stroke, end_position)
    IN  IF other_ref = selection_ref THEN None
        ELSE IF ~(IsSome(start_on_other_distance) /\ IsSome(end_on_other_distance))
        THEN None
        ELSE
          LET sd == Unwrap(start_on_other_distance)
              ed == Unwrap(end_on_other_distance)
              start_on_other == path_along(other_stroke, sd)
              start_direction_on_other == path_direction_along(other_stroke, sd)
              end_on_other == path_along(other_stroke, ed)
              end_direction_on_other == path_direction_along(other_stroke, ed)
              add_selection ==
                  /\ IsRoughlyWithin(start_on_other, start_position, 60)
                  /\ IsRoughlyWithin(end_on_other, end_position, 60)
                  /\ IF sd < ed
                     THEN /\ IsRoughlyEqual(start_direction_on_other, start_direction)
                          /\ IsRoughlyEqual(end_direction_on_other, end_direction)
                     ELSE IF TRUE
                     THEN /\ IsRoughlyEqual(start_direction_on_other, VNeg(start_direction))
                          /\ IsRoughlyEqual(end_direction_on_other, VNeg(end_direction))
                     ELSE FALSE
          IN  IF add_selection
              THEN Some(<<other_ref, <<Min(sd, ed), Max(ed, sd)>>>>)
              ELSE None

\* The body of the loop over all_strokes: Some(<<other_ref, <<start, end>>>>)
\* when the other stroke is selected along with selection_ref.
additional_selection(other, selection_ref, stroke, start, end, settings) ==
    LET other_ref == other[1]
        other_stroke == other[2]
        start_position == path_along(stroke, start)
        start_direction == path_direction_along(stroke, start)
        end_position == path_along(stroke, end)
        end_direction == path_direction_along(stroke, end)
        start_on_other_distance == path_project(other_stroke, start_position)
        end_on_other_distance == path_project(other_stroke, end_position)
    IN  IF other_ref = selection_ref THEN None
        ELSE IF ~(IsSome(start_on_other_distance) /\ IsSome(end_on_other_distance))
        THEN None
        ELSE
          LET sd == Unwrap(start_on_other_distance)
              ed == Unwrap(end_on_other_distance)
              start_on_other == path_along(other_stroke, sd)
              start_direction_on_other == path_direction_along(other_stroke, sd)
              end_on_other == path_along(other_stroke, ed)
              end_direction_on_other == path_direction_along(other_stroke, ed)
              add_selection ==
                  /\ IsRoughlyWithin(start_on_other, start_position, 60)
                  /\ IsRoughlyWithin(end_on_other, end_position, 60)
                  /\ IF sd < ed
                     THEN /\ IsRoughlyEqual(start_direction_on_other, start_direction)
                          /\ IsRoughlyEqual(end_direction_on_other, end_direction)
                     ELSE IF settings.select_opposite
                     THEN /\ IsRoughlyEqual(start_direction_on_other, VNeg(start_direction))
                          /\ IsRoughlyEqual(end_direction_on_other, VNeg(end_direction))
                     ELSE FALSE
          IN  IF add_selection
              THEN Some(<<other_ref, <<Min(sd, ed), Max(ed, sd)>>>>)
              ELSE None

RECURSIVE insert_all(_, _)
insert_all(selections, pairs) ==
    IF pairs = << >> THEN selections
    ELSE insert_all(DictInsert(selections, Head(pairs)[1], Head(pairs)[2]), Tail(pairs))

RECURSIVE Flatten(_)
Flatten(options) ==
    IF options = << >> THEN << >> ELSE Head(options) \o Flatten(Tail(options))

apply_select(selection_ref, start, end, current, still_built_strokes, settings) ==
    LET selected == DictInsert(current.selections, selection_ref, <<start, end>>)
        stroke == get_stroke(selection_ref, current.plan_delta, still_built_strokes)
        others == all_strokes(current.plan_delta, still_built_strokes)
        additional_selections ==
            Flatten([k \in DOMAIN others |->
                        additional_selection(others[k], selection_ref, stroke,
                                             start, end, settings)])
        new_selections == IF settings.select_parallel
                          THEN insert_all(selected, additional_selections)
                          ELSE selected
    IN  [current EXCEPT !.selections = new_selections, !.intent = Intent_None]

\* MaximizeSelection resetting the intent as the other handlers do.
apply_maximize_selection_resetting(current, still_built_strokes) ==
    LET new_selections ==
            [k \in DOMAIN current.selections |->
                <<current.selections[k][1],
                  <<0, path_length(get_stroke(current.selections[k][1],
                                              current.plan_delta, still_built_strokes))>>>>]
    IN  [current EXCEPT !.selections = new_selections, !.intent = Intent_None]

\* Only the end of each range is maximized.
apply_maximize_selection_end_only(current, still_built_strokes) ==
    [current EXCEPT !.selections =
        [k \in DOMAIN current.selections |->
            <<current.selections[k][1],
              <<current.selections[k][2][1],
                path_length(get_stroke(current.selections[k][1],
                                       current.plan_delta, still_built_strokes))>>>>]]

apply_maximize_selection(current, still_built_strokes) ==
    LET new_selections ==
            [k \in DOMAIN current.selections |->
                <<current.selections[k][1],
                  <<0, path_length(get_stroke(current.selections[k][1],
                                              current.plan_delta, still_built_strokes))>>>>]
    IN  [current EXCEPT !.selections = new_selections]

----------------------------------------------------------------------------
(* DeleteSelection and CreateNextLane                                      *)

\* The fragments one selection leaves: the part before start and the part
\* after end, each when it exists.
delete_fragments(selection, plan_delta, still_built_strokes) ==
    LET stroke == get_stroke(selection[1], plan_delta, still_built_strokes)
        start == selection[2][1]
        end == selection[2][2]
    IN  subsection(stroke, 0, start) \o subsection(stroke, end, path_length(stroke))

\* The indices of the selected new strokes.
selected_new_stroke_indices(current) ==
    LET news == SelectSeq(current.selections, LAMBDA e : e[1][1] = "New")
    IN  [k \in DOMAIN news |-> news[k][1][2]]

\* The list of indices to remove holding the first new stroke.
first_new_stroke_index(current) ==
    IF current.plan_delta.new_strokes = << >> THEN << >> ELSE <<0>>

\* new_stroke_indices_to_remove: created empty and never pushed to.
new_stroke_indices_to_remove(current) == << >>

apply_delete_selection(current, still_built_strokes) ==
    LET new_strokes ==
            Flatten([k \in DOMAIN current.selections |->
                        delete_fragments(current.selections[k], current.plan_delta,
                                         still_built_strokes)])
        kept == SelectSeq([k \in DOMAIN current.plan_delta.new_strokes |-> k],
                          LAMBDA k : \A r \in DOMAIN new_stroke_indices_to_remove(current) :
                                        new_stroke_indices_to_remove(current)[r] /= k - 1)
        new_plan_delta ==
            [current.plan_delta EXCEPT
                !.new_strokes = [k \in DOMAIN kept |-> current.plan_delta.new_strokes[kept[k]]]
                                \o new_strokes]
    IN  PlanStep(new_plan_delta, << >>, Intent_None)

\* One selected subsection offset by LANE_DISTANCE to its right.
next_lane_stroke(stroke) ==
    LaneStroke_new([k \in DOMAIN stroke |->
        LaneStrokeNode(VAdd(stroke[k].position,
                            VScale(LANE_DISTANCE, Orthogonal(stroke[k].direction))),
                       stroke[k].direction)])

\* A filter that lets every candidate through.
lane_is_never_selected(stroke, selected_subsections) == FALSE

\* The filter on the candidates: the candidate lies roughly within one of
\* the selected subsections.
lane_is_selected(stroke, selected_subsections) ==
    \E k \in DOMAIN selected_subsections :
        stroke_is_roughly_within(stroke, selected_subsections[k])

apply_create_next_lane(current, still_built_strokes) ==
    LET selected_subsections ==
            Flatten([k \in DOMAIN current.selections |->
                        subsection(get_stroke(current.selections[k][1], current.plan_delta,
                                              still_built_strokes),
                                   current.selections[k][2][1],
                                   current.selections[k][2][2])])
        candidates ==
            Flatten([k \in DOMAIN selected_subsections |->
                        next_lane_stroke(selected_subsections[k])])
        next_lane_strokes ==
            SelectSeq(candidates,
                      LAMBDA stroke : ~lane_is_selected(stroke, selected_subsections))
        new_new_strokes == current.plan_delta.new_strokes \o next_lane_strokes
    IN  PlanStep([current.plan_delta EXCEPT !.new_strokes = new_new_strokes],
                 << >>, Intent_None)

----------------------------------------------------------------------------
(* MoveSelection                                                           *)

\* A connector of a selection: <<reference, C>> with C Before or After.
\* An alignment is <<connector to align, connector to align to>>.

\* with_subsections_moved: the moved 5-tuple of every selection, keyed by
\* its reference.
subsections_moved(delta, current, still_built_strokes) ==
    [ref \in DictKeys(current.selections) |->
        with_subsection_moved(get_stroke(ref, current.plan_delta, still_built_strokes),
                              DictGet(current.selections, ref)[1],
                              DictGet(current.selections, ref)[2],
                              delta)]

a_close_and_right_of_b(maybe_node_a, maybe_node_b) ==
    IF IsSome(maybe_node_a) /\ IsSome(maybe_node_b)
    THEN LET node_a == Unwrap(maybe_node_a)
             node_b == Unwrap(maybe_node_b)
         IN  /\ IsRoughlyWithin(node_a.position, node_b.position, 7)
             /\ Dot(VSub(node_a.position, node_b.position),
                    Orthogonal(node_a.direction)) > 0
    ELSE FALSE

SeqFirst(s) == IF s = << >> THEN None ELSE Some(s[1])
SeqLast(s) == IF s = << >> THEN None ELSE Some(s[Len(s)])
Contains(s, x) == \E k \in DOMAIN s : s[k] = x

\* The body of the loop over the ordered pairs of distinct selections: the
\* four checks, each pushing onto the alignments recorded so far.
collect_pair(connector_alignments, ref_a, ref_b, moved) ==
    LET a == moved[ref_a]
        b == moved[ref_b]
        c1 == IF /\ a_close_and_right_of_b(SeqFirst(a[3]), SeqFirst(b[3]))
                 /\ IsSome(a[2]) /\ IsSome(b[2])
              THEN Append(connector_alignments,
                          <<<<ref_a, "Before">>, <<ref_b, "Before">>>>)
              ELSE connector_alignments
        c2 == IF /\ a_close_and_right_of_b(SeqFirst(a[3]), SeqLast(b[3]))
                 /\ IsSome(a[2]) /\ IsSome(b[4])
                 /\ ~Contains(c1, <<<<ref_b, "After">>, <<ref_a, "Before">>>>)
              THEN Append(c1, <<<<ref_a, "Before">>, <<ref_b, "After">>>>)
              ELSE c1
        c3 == IF /\ a_close_and_right_of_b(SeqLast(a[3]), SeqLast(b[3]))
                 /\ IsSome(a[4]) /\ IsSome(b[4])
              THEN Append(c2, <<<<ref_a, "After">>, <<ref_b, "After">>>>)
              ELSE c2
        c4 == IF /\ a_close_and_right_of_b(SeqLast(a[3]), SeqFirst(b[3]))
                 /\ IsSome(a[4]) /\ IsSome(b[2])
                 /\ ~Contains(c3, <<<<ref_b, "Before">>, <<ref_a, "After">>>>)
              THEN Append(c3, <<<<ref_a, "After">>, <<ref_b, "Before">>>>)
              ELSE c3
    IN  c4

\* The cartesian product of the map's iteration order with itself, without
\* the pairs of equal references.
ordered_pairs(order) ==
    Flatten([i \in DOMAIN order |->
        Flatten([j \in DOMAIN order |->
            IF order[i] /= order[j] THEN <<<<order[i], order[j]>>>> ELSE << >>])])

RECURSIVE collect_pairs(_, _, _)
collect_pairs(connector_alignments, pairs, moved) ==
    IF pairs = << >> THEN connector_alignments
    ELSE collect_pairs(collect_pair(connector_alignments, Head(pairs)[1], Head(pairs)[2],
                                    moved),
                       Tail(pairs), moved)

collect_alignments(order, moved) == collect_pairs(<< >>, ordered_pairs(order), moved)

\* The position found is taken only when it lies behind the successor of i.
swap_with_beyond_next(connector_alignments, i) ==
    LET align_a_to == connector_alignments[i][2]
        found == {k \in DOMAIN connector_alignments :
                     connector_alignments[k][1] = align_a_to}
        b_idx == IF found = {} THEN 0
                 ELSE CHOOSE k \in found : \A m \in found : k <= m
    IN  IF b_idx > i + 1 THEN b_idx ELSE 0

\* The position found is taken whether it lies behind i or before it.
swap_with_either_side(connector_alignments, i) ==
    LET align_a_to == connector_alignments[i][2]
        found == {k \in DOMAIN connector_alignments :
                     connector_alignments[k][1] = align_a_to}
        b_idx == IF found = {} THEN 0
                 ELSE CHOOSE k \in found : \A m \in found : k <= m
    IN  IF b_idx /= i THEN b_idx ELSE 0

\* iter().position(|b| align_a_to == b) followed by and_then(b_idx > i):
\* the index to swap alignment i with, 0 for none.
swap_with(connector_alignments, i) ==
    LET align_a_to == connector_alignments[i][2]
        found == {k \in DOMAIN connector_alignments :
                     connector_alignments[k][1] = align_a_to}
        b_idx == IF found = {} THEN 0
                 ELSE CHOOSE k \in found : \A m \in found : k <= m
    IN  IF b_idx > i THEN b_idx ELSE 0

\* One pass of the for loop: the first i that has something to swap with, 0
\* when the pass ends without a swap.
first_swap(connector_alignments) ==
    LET can == {i \in DOMAIN connector_alignments : swap_with(connector_alignments, i) /= 0}
    IN  IF can = {} THEN 0 ELSE CHOOSE i \in can : \A m \in can : i <= m

swap(s, i, j) == [s EXCEPT ![i] = s[j], ![j] = s[i]]

\* One evaluation of the while condition.
reorder_pass(connector_alignments) ==
    LET i == first_swap(connector_alignments)
    IN  IF i = 0 THEN connector_alignments
        ELSE swap(connector_alignments, i, swap_with(connector_alignments, i))

\* The while loop run to its end: Some(list) when a pass ends without a
\* swap, None when the loop comes back to a list it has already had, and so
\* never ends.
RECURSIVE reorder_loop(_, _)
reorder_loop(connector_alignments, seen) ==
    IF first_swap(connector_alignments) = 0 THEN Some(connector_alignments)
    ELSE IF connector_alignments \in seen THEN None
    ELSE reorder_loop(reorder_pass(connector_alignments),
                      seen \cup {connector_alignments})

reorder(connector_alignments) ==
    IF Len(connector_alignments) > 1 THEN reorder_loop(connector_alignments, {})
    ELSE Some(connector_alignments)

\* The field of the 5-tuple that holds a connector.
ConnectorField(c) == IF c = "Before" THEN 2 ELSE 4

\* One alignment applied with the two distances exchanged.
apply_alignment_distances_exchanged(moved, alignment) ==
    LET align_ref == alignment[1][1]
        align_field == ConnectorField(alignment[1][2])
        align_to == Unwrap(moved[alignment[2][1]][ConnectorField(alignment[2][2])])
        align == Unwrap(moved[align_ref][align_field])
        direction_sign == Signum(Dot(align.direction, align_to.direction))
        direction == VScale(direction_sign, align_to.direction)
        distance == IF direction_sign < 0 THEN 5 ELSE 6
        position == VAdd(align_to.position, VScale(distance, Orthogonal(direction)))
    IN  [moved EXCEPT ![align_ref][align_field] = Some(LaneStrokeNode(position, direction))]

\* One alignment applied to the map of moved subsections.
apply_alignment(moved, alignment) ==
    LET align_ref == alignment[1][1]
        align_field == ConnectorField(alignment[1][2])
        align_to == Unwrap(moved[alignment[2][1]][ConnectorField(alignment[2][2])])
        align == Unwrap(moved[align_ref][align_field])
        direction_sign == Signum(Dot(align.direction, align_to.direction))
        direction == VScale(direction_sign, align_to.direction)
        distance == IF direction_sign < 0 THEN 6 ELSE 5
        position == VAdd(align_to.position, VScale(distance, Orthogonal(direction)))
    IN  [moved EXCEPT ![align_ref][align_field] = Some(LaneStrokeNode(position, direction))]

RECURSIVE apply_alignments(_, _)
apply_alignments(moved, connector_alignments) ==
    IF connector_alignments = << >> THEN moved
    ELSE apply_alignments(apply_alignment(moved, Head(connector_alignments)),
                          Tail(connector_alignments))

\* The rebuilt stroke recorded in place of the committed one.
record_destroyed_rebuilt(strokes_to_destroy, old_ref, still_built_strokes, new_stroke) ==
    DictInsert(strokes_to_destroy, old_ref, new_stroke)

\* The Built arm, first half: the committed stroke recorded for destruction.
record_destroyed(strokes_to_destroy, old_ref, still_built_strokes, new_stroke) ==
    DictInsert(strokes_to_destroy, old_ref, DictGet(still_built_strokes, old_ref))

\* The length taken for the index of the last stroke.
pushed_ref_off_by_one(new_strokes) == New(Len(new_strokes))

\* The Built arm, second half: the reference of the stroke just pushed.
pushed_ref(new_strokes) == New(Len(new_strokes) - 1)

\* The body of the last loop keeping a selection whose stroke was not rebuilt.
rebuild_selection_keeping(acc, selection_ref, tuple, still_built_strokes) ==
    LET s == tuple[3]
        maybe_new_stroke ==
            LaneStroke_new(tuple[1] \o tuple[2] \o s \o tuple[4] \o tuple[5])
    IN  IF ~IsSome(maybe_new_stroke)
        THEN [acc EXCEPT !.selections = DictInsert(@, selection_ref, <<0, 0>>)]
        ELSE IF s = << >> THEN Panic
        ELSE
          LET new_stroke == Unwrap(maybe_new_stroke)
              new_selection_start == path_project(new_stroke, s[1].position)
              new_selection_end == path_project(new_stroke, s[Len(s)].position)
          IN  IF ~(IsSome(new_selection_start) /\ IsSome(new_selection_end)) THEN Panic
              ELSE IF selection_ref[1] = "New"
              THEN [plan_delta |->
                        [acc.plan_delta EXCEPT !.new_strokes[selection_ref[2] + 1] = new_stroke],
                    selections |->
                        DictInsert(acc.selections, New(selection_ref[2]),
                                   <<Unwrap(new_selection_start),
                                     Unwrap(new_selection_end)>>)]
              ELSE
                LET pushed == Append(acc.plan_delta.new_strokes, new_stroke)
                IN  [plan_delta |->
                        [acc.plan_delta EXCEPT
                            !.strokes_to_destroy =
                                record_destroyed(@, selection_ref[2], still_built_strokes,
                                                 new_stroke),
                            !.new_strokes = pushed],
                     selections |->
                        DictInsert(acc.selections, pushed_ref(pushed),
                                   <<Unwrap(new_selection_start),
                                     Unwrap(new_selection_end)>>)]

\* The body of the last loop for one selection: the stroke is rebuilt and,
\* when that succeeds, stored and selected.  acc holds new_plan_delta and
\* new_selections, or is Panic.
rebuild_selection(acc, selection_ref, tuple, still_built_strokes) ==
    LET new_plan_delta == acc.plan_delta
        new_selections == acc.selections
        s == tuple[3]
        maybe_new_stroke ==
            LaneStroke_new(tuple[1] \o tuple[2] \o s \o tuple[4] \o tuple[5])
    IN  IF ~IsSome(maybe_new_stroke) THEN acc
        ELSE IF s = << >> THEN Panic
        ELSE
          LET new_stroke == Unwrap(maybe_new_stroke)
              new_selection_start == path_project(new_stroke, s[1].position)
              new_selection_end == path_project(new_stroke, s[Len(s)].position)
          IN  IF ~(IsSome(new_selection_start) /\ IsSome(new_selection_end)) THEN Panic
              ELSE IF selection_ref[1] = "New"
              THEN [plan_delta |->
                        [new_plan_delta EXCEPT !.new_strokes[selection_ref[2] + 1] = new_stroke],
                    selections |->
                        DictInsert(new_selections, New(selection_ref[2]),
                                   <<Unwrap(new_selection_start),
                                     Unwrap(new_selection_end)>>)]
              ELSE
                LET old_ref == selection_ref[2]
                    pushed == Append(new_plan_delta.new_strokes, new_stroke)
                IN  [plan_delta |->
                        [new_plan_delta EXCEPT
                            !.strokes_to_destroy =
                                record_destroyed(@, old_ref, still_built_strokes, new_stroke),
                            !.new_strokes = pushed],
                     selections |->
                        DictInsert(new_selections, pushed_ref(pushed),
                                   <<Unwrap(new_selection_start),
                                     Unwrap(new_selection_end)>>)]

RECURSIVE rebuild_selections(_, _, _, _)
rebuild_selections(acc, order, moved, still_built_strokes) ==
    IF order = << >> \/ IsPanic(acc) THEN acc
    ELSE rebuild_selections(rebuild_selection(acc, Head(order), moved[Head(order)],
                                              still_built_strokes),
                            Tail(order), moved, still_built_strokes)

\* The result of a call that never returns.
Diverges == [diverges |-> TRUE]
IsDiverges(r) == "diverges" \in DOMAIN r

\* The moved subsections with their connectors aligned: Some(map), or None
\* when the reordering never ends.  order is the iteration order of the hash
\* map with_subsections_moved, a permutation of the selected references.
aligned_subsections(delta, current, still_built_strokes, order) ==
    LET with_subsections_moved == subsections_moved(delta, current, still_built_strokes)
        connector_alignments == reorder(collect_alignments(order, with_subsections_moved))
    IN  IF ~IsSome(connector_alignments) THEN None
        ELSE Some(apply_alignments(with_subsections_moved, Unwrap(connector_alignments)))

apply_move_selection(delta, current, still_built_strokes, order) ==
    LET aligned == aligned_subsections(delta, current, still_built_strokes, order)
    IN  IF ~IsSome(aligned) THEN Diverges
        ELSE
          LET rebuilt == rebuild_selections([plan_delta |-> current.plan_delta,
                                             selections |-> << >>], order,
                                            Unwrap(aligned), still_built_strokes)
          IN  IF IsPanic(rebuilt) THEN Panic
              ELSE [current EXCEPT !.plan_delta = rebuilt.plan_delta,
                                   !.selections = rebuilt.selections]

----------------------------------------------------------------------------
(* The dispatcher                                                          *)

\* A dispatcher that unwraps the committed strokes before the match.
needs_still_built_strokes_eagerly(tag) == TRUE

\* The arms of the match that evaluate still_built_strokes(), and so expect
\* the committed strokes to be there.
needs_still_built_strokes(tag) ==
    tag \in {"Select", "MaximizeSelection", "MoveSelection", "DeleteSelection",
             "CreateNextLane"}

\* order: the iteration order of MoveSelection's hash map (unused by the
\* other intents).
apply_intent(current, maybe_still_built_strokes, settings, order) ==
    LET intent == current.intent
        tag == intent.tag
        still_built_strokes == Unwrap(maybe_still_built_strokes)
    IN  IF needs_still_built_strokes(tag) /\ ~IsSome(maybe_still_built_strokes)
        THEN Panic
        ELSE CASE tag = "None" -> current
               [] tag = "NewRoad" -> apply_new_road(intent.points, current, settings)
               [] tag = "ContinueRoad" ->
                    apply_continue_road(intent.continue_from, intent.additional_points,
                                        intent.start_reference_point, current)
               [] tag = "Select" ->
                    apply_select(intent.selection_ref, intent.start, intent.end, current,
                                 still_built_strokes, settings)
               [] tag = "MaximizeSelection" ->
                    apply_maximize_selection(current, still_built_strokes)
               [] tag = "MoveSelection" ->
                    apply_move_selection(intent.delta, current, still_built_strokes, order)
               [] tag = "DeleteSelection" ->
                    apply_delete_selection(current, still_built_strokes)
               [] tag = "CreateNextLane" ->
                    apply_create_next_lane(current, still_built_strokes)

----------------------------------------------------------------------------
(* The caller: it sets an intent on the snapshot it holds and has          *)
(* apply_intent compute the next snapshot                                  *)

VARIABLES
    current,    \* the snapshot the caller holds
    issued,     \* the caller has set an intent that is not applied yet
    call,       \* the arguments of the last call of apply_intent
    outcome,    \* "none" before the first call, then "returned", "panic" or "diverges"
    calls,      \* the number of calls made
    limit,      \* the number of calls the caller makes at most
    lane_runs,  \* the CreateNextLane calls that returned: selections and lanes appended
    alignments, \* connector_alignments while the reordering loop runs on its own
    given,      \* the list the reordering loop was started on
    pc          \* the position in the reordering loop, "idle" when it is not run on its own

vars == <<current, issued, call, outcome, calls, limit, lane_runs, alignments, given, pc>>

\* The reordering loop is not run on its own.
NoLoop ==
    /\ alignments = << >>
    /\ given = << >>
    /\ pc = "idle"

StraightStroke(from, direction, distances) ==
    [k \in DOMAIN distances |->
        LaneStrokeNode(VAdd(from, VScale(distances[k], direction)), direction)]

\* The committed strokes: two neighbouring lanes of one direction, the
\* left one longer than the right one.
BuiltStrokes ==
    << <<1, StraightStroke(<<0, 0>>, <<1, 0>>, <<0, 10, 20, 30>>)>>,
       <<2, StraightStroke(<<0, -5>>, <<1, 0>>, <<0, 10, 20>>)>> >>

Settings(n, both, parallel, opposite) ==
    [n_lanes_per_side |-> n, create_both_sides |-> both,
     select_parallel |-> parallel, select_opposite |-> opposite]

DefaultSettings == Settings(1, FALSE, FALSE, FALSE)

EmptyPlanStep == PlanStep(PlanDelta(<< >>, << >>), << >>, Intent_None)

NoCall == [input |-> EmptyPlanStep, committed |-> None, settings |-> DefaultSettings,
           order |-> << >>]

Init ==
    /\ current = EmptyPlanStep
    /\ issued = FALSE
    /\ call = NoCall
    /\ outcome = "none"
    /\ calls = 0
    /\ limit = MaxCalls
    /\ lane_runs = << >>
    /\ NoLoop

\* The caller is still running (no call has aborted or hung) and within the
\* bounds of the model.
CanCall ==
    /\ outcome \in {"none", "returned"}
    /\ calls < limit
    /\ Len(current.plan_delta.new_strokes) <= MaxNewStrokes

\* The caller may set an intent: the last one it set has been applied.
CanIssue == CanCall /\ ~issued

\* The caller sets the intent of the snapshot it holds.
Issue(intent) ==
    /\ current' = [current EXCEPT !.intent = intent]
    /\ issued' = TRUE
    /\ UNCHANGED <<call, outcome, calls, limit, lane_runs, alignments, given, pc>>

\* The references that name a stroke of the held snapshot.
ExistingRefs ==
    {New(k - 1) : k \in DOMAIN current.plan_delta.new_strokes}
    \cup {Built(BuiltStrokes[k][1]) : k \in DOMAIN BuiltStrokes}

RoadPoints ==
    { << <<0, 20>>, <<10, 20>> >>,
      << <<0, 20>>, <<10, 20>>, <<10, 20>> >>,
      << <<0, 20>>, <<10, 20>>, <<5, 20>> >> }

ContinuePoints == { << <<20, 20>> >>, << <<10, 20>> >>, << <<5, 20>> >> }

SelectPositions == {0, 10, 20, 30}

MoveDeltas == { <<2, 0>>, <<0, -2>> }

IssueNone ==
    /\ CanIssue
    /\ Issue(Intent_None)

IssueNewRoad ==
    /\ CanIssue
    /\ \E points \in RoadPoints : Issue(Intent_NewRoad(points))

IssueContinueRoad ==
    /\ CanIssue
    /\ \E idx \in 0..(Len(current.plan_delta.new_strokes) - 1),
          mode \in {"Append", "Prepend"}, points \in ContinuePoints :
           Issue(Intent_ContinueRoad(<< <<idx, mode>> >>, points, <<10, 20>>))

IssueSelect ==
    /\ CanIssue
    /\ \E ref \in ExistingRefs, start \in SelectPositions, end \in SelectPositions :
           /\ start < end
           /\ end <= path_length(get_stroke(ref, current.plan_delta, BuiltStrokes))
           /\ Issue(Intent_Select(ref, start, end))

IssueMaximizeSelection ==
    /\ CanIssue
    /\ Issue(Intent_MaximizeSelection)

IssueMoveSelection ==
    /\ CanIssue
    /\ \E delta \in MoveDeltas : Issue(Intent_MoveSelection(delta))

IssueDeleteSelection ==
    /\ CanIssue
    /\ Issue(Intent_DeleteSelection)

IssueCreateNextLane ==
    /\ CanIssue
    /\ Issue(Intent_CreateNextLane)

\* The committed strokes a call may be handed: none, or the baseline.
CommittedArgs == {None, Some(BuiltStrokes)}

\* The settings a call may be handed; only NewRoad and Select read them.
SettingsArgs(tag) ==
    IF tag = "NewRoad"
    THEN {Settings(n, both, FALSE, FALSE) : n \in 1..2, both \in BOOLEAN}
    ELSE IF tag = "Select"
    THEN {Settings(1, FALSE, FALSE, FALSE), Settings(1, FALSE, TRUE, FALSE),
          Settings(1, FALSE, TRUE, TRUE)}
    ELSE {DefaultSettings}

Perms(S) == {p \in [1..Cardinality(S) -> S] : \A i, j \in DOMAIN p : i /= j => p[i] /= p[j]}

\* The iteration orders the hash map of MoveSelection may have.
OrderArgs(tag) ==
    IF tag = "MoveSelection" THEN Perms(DictKeys(current.selections)) ELSE {<< >>}

MaxMoved == 4

\* apply_intent called on the held snapshot: on the intent the caller has
\* set, or once more on a returned snapshot that still carries an intent.
Apply ==
    /\ CanCall
    /\ issued \/ (outcome = "returned" /\ current.intent.tag /= "None")
    /\ Len(current.selections) <= MaxMoved
    /\ \E committed \in CommittedArgs, settings \in SettingsArgs(current.intent.tag),
          order \in OrderArgs(current.intent.tag) :
         \E result \in {apply_intent(current, committed, settings, order)} :
           /\ call' = [input |-> current, committed |-> committed, settings |-> settings,
                       order |-> order]
           /\ calls' = calls + 1
           /\ issued' = FALSE
           /\ UNCHANGED <<limit, alignments, given, pc>>
           /\ IF IsPanic(result)
              THEN outcome' = "panic" /\ UNCHANGED <<current, lane_runs>>
              ELSE IF IsDiverges(result)
              THEN outcome' = "diverges" /\ UNCHANGED <<current, lane_runs>>
              ELSE /\ outcome' = "returned"
                   /\ current' = result
                   /\ lane_runs' =
                        IF current.intent.tag = "CreateNextLane"
                        THEN Append(lane_runs,
                                    [selections |-> current.selections,
                                     lanes |-> SubSeq(result.plan_delta.new_strokes,
                                                      Len(current.plan_delta.new_strokes) + 1,
                                                      Len(result.plan_delta.new_strokes))])
                        ELSE lane_runs

Next ==
    \/ IssueNone
    \/ IssueNewRoad
    \/ IssueContinueRoad
    \/ IssueSelect
    \/ IssueMaximizeSelection
    \/ IssueMoveSelection
    \/ IssueDeleteSelection
    \/ IssueCreateNextLane
    \/ Apply

Spec == Init /\ [][Next]_vars

----------------------------------------------------------------------------
(* A caller that works on lanes: it selects ranges, short ones too, adds   *)
(* next lanes and moves the selection                                      *)

MaxLaneCalls == 4

\* The ranges selected: a whole lane, and a range shorter than the distance
\* of two lanes.
LaneRanges == { <<0, 20>>, <<10, 14>> }

LaneInit ==
    /\ current = EmptyPlanStep
    /\ issued = FALSE
    /\ call = NoCall
    /\ outcome = "none"
    /\ calls = 0
    /\ limit = MaxLaneCalls
    /\ lane_runs = << >>
    /\ NoLoop

IssueSelectRange ==
    /\ CanIssue
    /\ \E ref \in ExistingRefs, range \in LaneRanges :
           /\ range[2] <= path_length(get_stroke(ref, current.plan_delta, BuiltStrokes))
           /\ Issue(Intent_Select(ref, range[1], range[2]))

LaneNext ==
    \/ IssueSelectRange
    \/ IssueCreateNextLane
    \/ IssueMoveSelection
    \/ Apply

LaneSpec == LaneInit /\ [][LaneNext]_vars

----------------------------------------------------------------------------
(* A caller that works on a road: it draws a road of one or two lanes per  *)
(* side, continues some of its lanes, selects a range with the lanes       *)
(* beside it, and moves the selection                                      *)

MaxRoadCalls == 3

\* The centre line of the road drawn.
LongRoadPoints == << <<0, 20>>, <<10, 20>>, <<20, 20>>, <<30, 20>> >>

\* The point the centre line ends at.
RoadEnd == <<30, 20>>

\* The points a road is continued with: ahead of the end, at the end (within
\* the tolerance of the reference point), and behind it.
RoadContinuations ==
    { << <<40, 20>> >>, << <<30, 20>> >>, << <<20, 20>> >>,
      << <<30, 20>>, <<40, 20>> >>, << <<40, 20>>, <<40, 20>> >>,
      << <<40, 20>>, <<50, 20>> >> }

\* The ranges selected on a lane: shorter than the distance of two lanes, and
\* longer.
RoadRanges == { <<12, 14>>, <<10, 20>> }

RoadInit ==
    /\ current = EmptyPlanStep
    /\ issued = FALSE
    /\ call = NoCall
    /\ outcome = "none"
    /\ calls = 0
    /\ limit = MaxRoadCalls
    /\ lane_runs = << >>
    /\ NoLoop

IssueLongRoad ==
    /\ CanIssue
    /\ Issue(Intent_NewRoad(LongRoadPoints))

\* The lanes continued: continue_from has one or two entries, each naming a
\* new stroke at its tail or its head; the list is a vector, and its two
\* entries may name the same stroke.
IssueContinueLanes ==
    /\ CanIssue
    /\ \E points \in RoadContinuations :
       \E first, second \in 0..(Len(current.plan_delta.new_strokes) - 1),
          first_mode, second_mode \in {"Append", "Prepend"} :
           \/ Issue(Intent_ContinueRoad(<< <<first, first_mode>> >>, points, RoadEnd))
           \/ Issue(Intent_ContinueRoad(<< <<first, first_mode>>,
                                           <<second, second_mode>> >>,
                                        points, RoadEnd))

IssueSelectOnRoad ==
    /\ CanIssue
    /\ \E ref \in ExistingRefs, range \in RoadRanges :
           /\ range[2] <= path_length(get_stroke(ref, current.plan_delta, BuiltStrokes))
           /\ Issue(Intent_Select(ref, range[1], range[2]))

RoadNext ==
    \/ IssueLongRoad
    \/ IssueContinueLanes
    \/ IssueSelectOnRoad
    \/ IssueMoveSelection
    \/ Apply

RoadSpec == RoadInit /\ [][RoadNext]_vars

----------------------------------------------------------------------------
(* The reordering loop of MoveSelection run on its own, one evaluation of  *)
(* the while condition at a time, on every list of alignments              *)

MaxAlignments == 3

\* The strokes the alignments are between.
LoopRefs == {New(0), New(1), Built(1)}

LoopConnectors == LoopRefs \X {"Before", "After"}

\* connector_alignments holds pairs of connectors of two different strokes,
\* each pair once.
PossibleAlignments == {a \in LoopConnectors \X LoopConnectors : a[1][1] /= a[2][1]}

AlignmentLists ==
    {list \in UNION {[1..n -> PossibleAlignments] : n \in 0..MaxAlignments} :
        \A i, j \in DOMAIN list : i /= j => list[i] /= list[j]}

LoopInit ==
    /\ current = EmptyPlanStep
    /\ issued = FALSE
    /\ call = NoCall
    /\ outcome = "none"
    /\ calls = 0
    /\ limit = 0
    /\ lane_runs = << >>
    /\ alignments \in AlignmentLists
    /\ given = alignments
    /\ pc = "start"

caller_vars == <<current, issued, call, outcome, calls, limit, lane_runs>>

\* if connector_alignments.len() > 1: the loop is entered.
LoopEnter ==
    /\ pc = "start"
    /\ Len(alignments) > 1
    /\ pc' = "loop"
    /\ UNCHANGED <<caller_vars, alignments, given>>

\* A list of at most one alignment is left as it is.
LoopSkip ==
    /\ pc = "start"
    /\ Len(alignments) <= 1
    /\ pc' = "done"
    /\ UNCHANGED <<caller_vars, alignments, given>>

\* The for loop finds something to swap: something_happened, once more.
LoopSwap ==
    /\ pc = "loop"
    /\ first_swap(alignments) /= 0
    /\ alignments' = reorder_pass(alignments)
    /\ UNCHANGED <<caller_vars, given, pc>>

\* The for loop ends without a swap: the while loop ends.
LoopExit ==
    /\ pc = "loop"
    /\ first_swap(alignments) = 0
    /\ pc' = "done"
    /\ UNCHANGED <<caller_vars, alignments, given>>

LoopNext ==
    \/ LoopEnter
    \/ LoopSkip
    \/ LoopSwap
    \/ LoopExit

\* The loop is sequential code: it takes its next step whenever it has one.
LoopSpec == LoopInit /\ [][LoopNext]_vars /\ WF_vars(LoopNext)

----------------------------------------------------------------------------
(* Properties of the calls                                                 *)

\* The last call ran the handler of tag and returned; the held snapshot is
\* its result.
Returned(tag) == outcome = "returned" /\ ~issued /\ call.input.intent.tag = tag

input_selections == call.input.selections
input_new_strokes == call.input.plan_delta.new_strokes
result_new_strokes == current.plan_delta.new_strokes

\* The stroke the last call (a MoveSelection) rebuilt for ref, None when the
\* construction failed.
RebuiltStroke(ref) ==
    LET t == Unwrap(aligned_subsections(call.input.intent.delta, call.input,
                                        BuiltStrokes, call.order))[ref]
    IN  LaneStroke_new(t[1] \o t[2] \o t[3] \o t[4] \o t[5])

\* C1: a call without committed strokes panics exactly when the intent is
\* Select, MaximizeSelection, MoveSelection, DeleteSelection or
\* CreateNextLane; with None, NewRoad or ContinueRoad it returns.
C1_PanicsWithoutCommitted ==
    (calls > 0 /\ call.committed = None) =>
        /\ outcome = "panic" <=>
              call.input.intent.tag \in {"Select", "MaximizeSelection", "MoveSelection",
                                         "DeleteSelection", "CreateNextLane"}
        /\ call.input.intent.tag \in {"None", "NewRoad", "ContinueRoad"} =>
              outcome = "returned"

C1_Witness ==
    /\ calls > 1
    /\ call.committed = None
    /\ call.input.intent.tag = "MoveSelection"
    /\ outcome = "panic"

\* C2: every entry of strokes_to_destroy is keyed by a reference of the
\* committed strokes and holds the committed stroke stored under it.
C2_DestroyedAreCommitted ==
    \A k \in DOMAIN current.plan_delta.strokes_to_destroy :
        LET entry == current.plan_delta.strokes_to_destroy[k]
        IN  /\ DictHas(BuiltStrokes, entry[1])
            /\ entry[2] = DictGet(BuiltStrokes, entry[1])

C2_Witness ==
    /\ calls > 1
    /\ current.plan_delta.strokes_to_destroy /= << >>
    /\ current.plan_delta.new_strokes /= << >>

\* C3: after MoveSelection or DeleteSelection, every committed stroke that
\* was selected and that strokes were derived from is recorded in
\* strokes_to_destroy.
C3_CommittedOriginalRecorded ==
    /\ Returned("MoveSelection") =>
          \A k \in DOMAIN input_selections :
              LET ref == input_selections[k][1]
              IN  (ref[1] = "Built" /\ IsSome(RebuiltStroke(ref))) =>
                      DictHas(current.plan_delta.strokes_to_destroy, ref[2])
    /\ Returned("DeleteSelection") =>
          \A k \in DOMAIN input_selections :
              LET ref == input_selections[k][1]
              IN  (/\ ref[1] = "Built"
                   /\ delete_fragments(input_selections[k], call.input.plan_delta,
                                       BuiltStrokes) /= << >>) =>
                      DictHas(current.plan_delta.strokes_to_destroy, ref[2])

\* The committed strokes rebuilt by the last call before position n of its
\* iteration order.
BuiltRebuiltBefore(n) ==
    Cardinality({m \in 1..(n - 1) : /\ call.order[m][1] = "Built"
                                    /\ IsSome(RebuiltStroke(call.order[m]))})

\* C4: in MoveSelection a rebuilt stroke keyed by Built(r) is appended to
\* new_strokes, r is recorded in strokes_to_destroy and the selection is
\* keyed by the New index of the appended stroke; a rebuilt stroke keyed by
\* New(i) replaces new_strokes[i], adds no stroke and stays keyed by New(i).
C4_MovePlacesRebuiltStrokes ==
    Returned("MoveSelection") =>
        LET base == Len(input_new_strokes)
        IN  /\ \A n \in DOMAIN call.order :
                  LET ref == call.order[n]
                      st == RebuiltStroke(ref)
                      j == base + BuiltRebuiltBefore(n)
                  IN  IsSome(st) =>
                        IF ref[1] = "Built"
                        THEN /\ Len(result_new_strokes) > j
                             /\ result_new_strokes[j + 1] = Unwrap(st)
                             /\ DictHas(current.plan_delta.strokes_to_destroy, ref[2])
                             /\ DictHas(current.selections, New(j))
                        ELSE /\ result_new_strokes[ref[2] + 1] = Unwrap(st)
                             /\ DictHas(current.selections, New(ref[2]))
            /\ Len(result_new_strokes) = base + BuiltRebuiltBefore(Len(call.order) + 1)

C4_Witness ==
    /\ Returned("MoveSelection")
    /\ \E n \in DOMAIN call.order :
          call.order[n][1] = "Built" /\ IsSome(RebuiltStroke(call.order[n]))
    /\ \E n \in DOMAIN call.order :
          call.order[n][1] = "New" /\ IsSome(RebuiltStroke(call.order[n]))

\* C5: NewRoad, ContinueRoad, DeleteSelection and CreateNextLane return a
\* snapshot with no selections and intent None.
C5_SelectionsAndIntentCleared ==
    (\E tag \in {"NewRoad", "ContinueRoad", "DeleteSelection", "CreateNextLane"} :
        Returned(tag)) =>
        /\ current.selections = << >>
        /\ current.intent = Intent_None

C5_Witness ==
    /\ Returned("ContinueRoad")
    /\ input_selections /= << >>
    /\ current.selections = << >>

\* C6: MaximizeSelection keeps the selected references, maps each to
\* (0, length of its stroke's path) and leaves plan_delta unchanged.
C6_MaximizeSelectsWholeStrokes ==
    Returned("MaximizeSelection") =>
        /\ DOMAIN current.selections = DOMAIN input_selections
        /\ \A k \in DOMAIN input_selections :
              /\ current.selections[k][1] = input_selections[k][1]
              /\ current.selections[k][2] =
                    <<0, path_length(get_stroke(input_selections[k][1],
                                                call.input.plan_delta, BuiltStrokes))>>
        /\ current.plan_delta = call.input.plan_delta

C6_Witness ==
    /\ Returned("MaximizeSelection")
    /\ \E k \in DOMAIN input_selections :
          /\ input_selections[k][2][1] > 0
          /\ current.selections[k][2][1] = 0
          /\ current.selections[k][2][2] > input_selections[k][2][2]

\* The selection of a call: a single range strictly inside its stroke.
SingleInnerSelection ==
    /\ Len(input_selections) = 1
    /\ 0 < input_selections[1][2][1]
    /\ input_selections[1][2][1] < input_selections[1][2][2]
    /\ input_selections[1][2][2] <
          path_length(get_stroke(input_selections[1][1], call.input.plan_delta,
                                 BuiltStrokes))

\* The strokes a call appended to new_strokes.
Appended ==
    SubSeq(result_new_strokes, Len(input_new_strokes) + 1, Len(result_new_strokes))

\* C7: DeleteSelection keeps every new stroke at its index and appends, for
\* each selection, the part before start and the part after end when they
\* exist; a single selection strictly inside its stroke appends exactly two.
C7_DeleteKeepsStrokesAndAppendsFragments ==
    Returned("DeleteSelection") =>
        /\ Len(result_new_strokes) >= Len(input_new_strokes)
        /\ SubSeq(result_new_strokes, 1, Len(input_new_strokes)) = input_new_strokes
        /\ Appended =
              Flatten([k \in DOMAIN input_selections |->
                  LET stroke == get_stroke(input_selections[k][1], call.input.plan_delta,
                                           BuiltStrokes)
                  IN  subsection(stroke, 0, input_selections[k][2][1])
                      \o subsection(stroke, input_selections[k][2][2], path_length(stroke))])
        /\ SingleInnerSelection =>
              LET stroke == get_stroke(input_selections[1][1], call.input.plan_delta,
                                       BuiltStrokes)
              IN  /\ Len(Appended) = 2
                  /\ Appended[1][1].position = path_along(stroke, 0)
                  /\ Appended[1][Len(Appended[1])].position =
                        path_along(stroke, input_selections[1][2][1])
                  /\ Appended[2][1].position =
                        path_along(stroke, input_selections[1][2][2])
                  /\ Appended[2][Len(Appended[2])].position =
                        path_along(stroke, path_length(stroke))

C7_Witness ==
    /\ Returned("DeleteSelection")
    /\ SingleInnerSelection
    /\ input_new_strokes /= << >>
    /\ Len(Appended) = 2

\* The subsections a call had selected.
SelectedSubsections ==
    Flatten([k \in DOMAIN input_selections |->
                subsection(get_stroke(input_selections[k][1], call.input.plan_delta,
                                      BuiltStrokes),
                           input_selections[k][2][1], input_selections[k][2][2])])

\* The runs of CreateNextLane before the last call that had the selections
\* of the last call, appended a lane, and whose lanes the input of the last
\* call still holds.
EarlierRuns ==
    {n \in 1..(Len(lane_runs) - 1) :
        /\ lane_runs[n].selections = input_selections
        /\ lane_runs[n].lanes /= << >>
        /\ \A k \in DOMAIN lane_runs[n].lanes :
              Contains(input_new_strokes, lane_runs[n].lanes[k])}

\* C8 as stated: when CreateNextLane is run again on the selections of an
\* earlier run whose lane new_strokes still hold, no second copy of that
\* lane is appended.
C8_RerunDoesNotDuplicateLane ==
    Returned("CreateNextLane") =>
        \A n \in EarlierRuns :
            \A k \in DOMAIN lane_runs[n].lanes :
                ~Contains(Appended, lane_runs[n].lanes[k])

\* C8 as the code has it: CreateNextLane appends, in the order of the
\* selections, the lane LANE_DISTANCE to the right of every selected
\* subsection, except the lanes that lie roughly within a selected
\* subsection; a lane of an earlier run is appended again unless it is
\* itself selected.
C8_NoLaneOverSelectedSubsection ==
    Returned("CreateNextLane") =>
        /\ \A k \in DOMAIN Appended, m \in DOMAIN SelectedSubsections :
              ~stroke_is_roughly_within(Appended[k], SelectedSubsections[m])
        /\ Appended =
              SelectSeq(Flatten([m \in DOMAIN SelectedSubsections |->
                                    next_lane_stroke(SelectedSubsections[m])]),
                        LAMBDA lane : \A m \in DOMAIN SelectedSubsections :
                                         lane /= SelectedSubsections[m])
        /\ \A n \in 1..(Len(lane_runs) - 1) :
              \A k \in DOMAIN lane_runs[n].lanes :
                  (\E m \in DOMAIN SelectedSubsections :
                      SelectedSubsections[m] = lane_runs[n].lanes[k])
                  => ~Contains(Appended, lane_runs[n].lanes[k])

\* A lane of an earlier run is selected along with the subsection it was
\* made from, and is not appended again.
C8_Witness ==
    /\ Returned("CreateNextLane")
    /\ \E n \in 1..(Len(lane_runs) - 1) :
          \E k \in DOMAIN lane_runs[n].lanes, m, o \in DOMAIN SelectedSubsections :
              /\ SelectedSubsections[m] = lane_runs[n].lanes[k]
              /\ next_lane_stroke(SelectedSubsections[o]) = Some(lane_runs[n].lanes[k])
              /\ ~Contains(Appended, lane_runs[n].lanes[k])
    /\ Appended /= << >>

\* The alignments in the order the last call (a MoveSelection) applied them.
AppliedAlignments ==
    Unwrap(reorder(collect_alignments(call.order,
                                      subsections_moved(call.input.intent.delta,
                                                        call.input, BuiltStrokes))))

\* C9: the alignments are applied in dependency order: whenever the target
\* connector of an alignment c is the source connector of an alignment d,
\* d is applied before c.
C9_AppliedInDependencyOrder ==
    (/\ calls > 0
     /\ call.input.intent.tag = "MoveSelection"
     /\ outcome \in {"returned", "panic"}
     /\ call.committed /= None) =>
        \A i, j \in DOMAIN AppliedAlignments :
            AppliedAlignments[i][2] = AppliedAlignments[j][1] => j < i

\* The dependency relation of a list of alignments, on its indices: i
\* depends on j when the target connector of i is the source connector of j.
Depends(list) ==
    {d \in (DOMAIN list) \X (DOMAIN list) : list[d[1]][2] = list[d[2]][1]}

RECURSIVE Closure(_, _, _)
Closure(R, D, n) ==
    IF n = 0 THEN R
    ELSE LET C == Closure(R, D, n - 1)
         IN  C \cup {d \in D \X D : \E m \in D : <<d[1], m>> \in C /\ <<m, d[2]>> \in R}

Acyclic(list) ==
    \A i \in DOMAIN list :
        <<i, i>> \notin Closure(Depends(list), DOMAIN list, Len(list))

\* C10: started on a list of alignments whose dependency relation is
\* acyclic, the reordering loop ends.
C10_AcyclicListsTerminate == (pc = "start" /\ Acyclic(given)) ~> (pc = "done")

\* The loop has ended on an acyclic list of three alignments after it
\* swapped.
C10_Witness ==
    /\ pc = "done"
    /\ Acyclic(given)
    /\ Len(given) >= 3
    /\ Depends(given) /= {}
    /\ alignments /= given

\* No two alignments of the list have the same source connector.
DistinctSources(list) ==
    \A i, j \in DOMAIN list : i /= j => list[i][1] /= list[j][1]

MovedLast ==
    /\ calls > 0
    /\ call.input.intent.tag = "MoveSelection"
    /\ call.committed /= None

\* The alignments the last call (a MoveSelection) recorded, in the order the
\* collection pushed them, before the reordering.
RecordedAlignments ==
    collect_alignments(call.order,
                       subsections_moved(call.input.intent.delta, call.input, BuiltStrokes))

Mirror(alignment) == <<alignment[2], alignment[1]>>

\* C12: the list of recorded alignments never holds both an alignment of
\* the relations Before-After, After-After or After-Before and its mirror.
C12_NoMirrorOfAfterRelations ==
    MovedLast =>
        \A i, j \in DOMAIN RecordedAlignments :
            ("After" \in {RecordedAlignments[i][1][2], RecordedAlignments[i][2][2]})
                => RecordedAlignments[j] /= Mirror(RecordedAlignments[i])

\* The last call was a ContinueRoad that returned, with these arguments.
continue_from == call.input.intent.continue_from
additional_points == call.input.intent.additional_points
start_reference_point == call.input.intent.start_reference_point

\* No stroke is named twice in continue_from.
NamedOnce ==
    \A i, j \in DOMAIN continue_from : i /= j => continue_from[i][1] /= continue_from[j][1]

\* The call had one reference point and did not skip it.
OnePointApplied ==
    /\ Len(additional_points) = 1
    /\ ~IsRoughlyEqual(additional_points[1], start_reference_point)

\* old_nodes are the nodes of a stroke that then gained one node at the end
\* the mode names.
GainedOne(old_nodes, new_nodes, mode) ==
    /\ Len(new_nodes) = Len(old_nodes) + 1
    /\ IF mode = "Append" THEN SubSeq(new_nodes, 1, Len(old_nodes)) = old_nodes
       ELSE Tail(new_nodes) = old_nodes

\* The stroke as one reference point leaves it when it is the only one named.
ContinuedAlone(stroke, mode) ==
    continue_strokes(<<stroke>>, << <<0, mode>> >>, start_reference_point,
                     additional_points[1])[1]

\* C13: for one reference point, every named stroke either gained one node
\* and is well formed, or has exactly the nodes it had (the insertion was
\* undone); which of the two does not depend on the other named strokes.
C13_IllFormedInsertionUndone ==
    (Returned("ContinueRoad") /\ OnePointApplied /\ NamedOnce) =>
        \A e \in DOMAIN continue_from :
            LET old_nodes == input_new_strokes[continue_from[e][1] + 1]
                new_nodes == result_new_strokes[continue_from[e][1] + 1]
            IN  /\ new_nodes = ContinuedAlone(old_nodes, continue_from[e][2])
                /\ \/ new_nodes = old_nodes
                   \/ /\ GainedOne(old_nodes, new_nodes, continue_from[e][2])
                      /\ well_formed(new_nodes)

\* A call on two strokes in which the first named stroke's insertion was
\* undone and the second gained its node.
C13_Witness ==
    /\ Returned("ContinueRoad") /\ OnePointApplied /\ NamedOnce
    /\ Len(continue_from) = 2
    /\ result_new_strokes[continue_from[1][1] + 1] = input_new_strokes[continue_from[1][1] + 1]
    /\ Len(input_new_strokes[continue_from[1][1] + 1]) >= 2
    /\ GainedOne(input_new_strokes[continue_from[2][1] + 1],
                 result_new_strokes[continue_from[2][1] + 1], continue_from[2][2])

\* The points of a ContinueRoad that are not skipped: those that differ from
\* the running previous reference point, which only they advance.
RECURSIVE AppliedPoints(_, _)
AppliedPoints(points, previous_reference_point) ==
    IF points = << >> THEN << >>
    ELSE IF IsRoughlyEqual(Head(points), previous_reference_point)
         THEN AppliedPoints(Tail(points), previous_reference_point)
         ELSE <<Head(points)>> \o AppliedPoints(Tail(points), Head(points))

C14_AllSkipped ==
    /\ Returned("ContinueRoad")
    /\ additional_points /= << >>
    /\ AppliedPoints(additional_points, start_reference_point) = << >>
    /\ continue_from /= << >>
    /\ current.plan_delta = call.input.plan_delta

\* The arguments of the last call when it was a NewRoad.
points == call.input.intent.points
n_lanes_per_side == call.settings.n_lanes_per_side
create_both_sides == call.settings.create_both_sides
base == Len(input_new_strokes)
road_direction == Normalize(VSub(points[2], points[1]))

\* The lateral offset of lane k, counted from 0.
LaneOffset(k) ==
    VScale(CENTER_LANE_DISTANCE \div 2 + LANE_DISTANCE * k, Orthogonal(road_direction))

\* A one-node stroke continued on its own through points[1..] from points[0].
ContinuedFrom(node, mode) ==
    continue_points(<< <<node>> >>, << <<0, mode>> >>, Tail(points), points[1])[1]

\* C15: NewRoad keeps the strokes there were at their indices and appends
\* n_lanes_per_side strokes, twice as many with create_both_sides; forward
\* lane k is at base + k, the node at points[0] plus the lane's offset
\* continued in Append mode, and mirrored lane k is at
\* base + n_lanes_per_side + k, the node of reversed direction at points[0]
\* minus the offset continued in Prepend mode.
C15_NewRoadAppendsLanes ==
    Returned("NewRoad") =>
        /\ Len(result_new_strokes) =
               base + (IF create_both_sides THEN 2 ELSE 1) * n_lanes_per_side
        /\ SubSeq(result_new_strokes, 1, base) = input_new_strokes
        /\ \A k \in 0..(n_lanes_per_side - 1) :
               /\ result_new_strokes[base + k + 1] =
                      ContinuedFrom(LaneStrokeNode(VAdd(points[1], LaneOffset(k)),
                                                   road_direction), "Append")
               /\ result_new_strokes[base + k + 1][1].position =
                      VAdd(points[1], LaneOffset(k))
               /\ create_both_sides =>
                      LET mirrored == result_new_strokes[base + n_lanes_per_side + k + 1]
                      IN  /\ mirrored =
                                 ContinuedFrom(LaneStrokeNode(VSub(points[1], LaneOffset(k)),
                                                              VNeg(road_direction)),
                                               "Prepend")
                          /\ mirrored[Len(mirrored)].position =
                                 VSub(points[1], LaneOffset(k))
                          /\ mirrored[Len(mirrored)].direction = VNeg(road_direction)

\* A road of two lanes per side laid on both sides, each stroke continued
\* beyond its first node.
C15_Witness ==
    /\ Returned("NewRoad")
    /\ create_both_sides
    /\ n_lanes_per_side = 2
    /\ \A k \in 1..4 : Len(result_new_strokes[base + k]) >= 2

\* A road laid behind strokes that were there before.
C15_AfterExisting ==
    /\ Returned("NewRoad")
    /\ base > 0
    /\ Len(result_new_strokes) > base

\* The selections of the last call (a MoveSelection) whose stroke was
\* rebuilt, and those whose stroke was not.
Rebuilt == {ref \in DictKeys(input_selections) : IsSome(RebuiltStroke(ref))}
NotRebuilt == DictKeys(input_selections) \ Rebuilt

\* The strokes the last call pushed behind those of its input.
Pushed ==
    SubSeq(result_new_strokes, Len(input_new_strokes) + 1, Len(result_new_strokes))

\* C16: the selections returned are the rebuilt ones: a rebuilt New(i) is
\* selected and holds its rebuilt stroke, a rebuilt Built(r) is recorded for
\* destruction and its rebuilt stroke pushed and selected; a selection that
\* was not rebuilt is not selected, and its stroke is as in the input (a new
\* stroke unchanged, a built stroke no more recorded than it was).
C16_ExactlyRebuiltSelected ==
    Returned("MoveSelection") =>
        /\ Cardinality(DictKeys(current.selections)) = Cardinality(Rebuilt)
        /\ Len(Pushed) = Cardinality({ref \in Rebuilt : ref[1] = "Built"})
        /\ \A ref \in Rebuilt :
               IF ref[1] = "New"
               THEN /\ DictHas(current.selections, ref)
                    /\ result_new_strokes[ref[2] + 1] = Unwrap(RebuiltStroke(ref))
               ELSE /\ DictHas(current.plan_delta.strokes_to_destroy, ref[2])
                    /\ \E k \in DOMAIN Pushed :
                           /\ Pushed[k] = Unwrap(RebuiltStroke(ref))
                           /\ DictHas(current.selections,
                                      New(Len(input_new_strokes) + k - 1))
        /\ \A ref \in NotRebuilt :
               /\ ~DictHas(current.selections, ref)
               /\ IF ref[1] = "New"
                  THEN result_new_strokes[ref[2] + 1] = input_new_strokes[ref[2] + 1]
                  ELSE DictHas(current.plan_delta.strokes_to_destroy, ref[2])
                           = DictHas(call.input.plan_delta.strokes_to_destroy, ref[2])

\* A move in which a new stroke and a built stroke were not rebuilt and
\* another selection was.
C16_Witness ==
    /\ Returned("MoveSelection")
    /\ Rebuilt /= {}
    /\ \E ref \in NotRebuilt : ref[1] = "New"
    /\ \E ref \in NotRebuilt : ref[1] = "Built"

\* The arguments of the last call when it was a Select.
selection_ref == call.input.intent.selection_ref
selected_stroke == get_stroke(selection_ref, call.input.plan_delta, BuiltStrokes)

\* The selections the last call added or changed, other than selection_ref.
AlsoSelected ==
    {other_ref \in DictKeys(current.selections) \ {selection_ref} :
        \/ ~DictHas(input_selections, other_ref)
        \/ DictGet(input_selections, other_ref) /= DictGet(current.selections, other_ref)}

\* The projections of the two ends of the selection onto another stroke.
StartOnOther(other_ref) ==
    path_project(get_stroke(other_ref, call.input.plan_delta, BuiltStrokes),
                 path_along(selected_stroke, call.input.intent.start))
EndOnOther(other_ref) ==
    path_project(get_stroke(other_ref, call.input.plan_delta, BuiltStrokes),
                 path_along(selected_stroke, call.input.intent.end))

\* C17: Select maps selection_ref to (start, end) and leaves plan_delta as
\* it was; another stroke is added or changed only with select_parallel and
\* only when both ends of the selection project onto it, and when the
\* projections are not in increasing order only with select_opposite.
C17_SelectAddsOnlyAsSet ==
    Returned("Select") =>
        /\ DictHas(current.selections, selection_ref)
        /\ DictGet(current.selections, selection_ref) =
               <<call.input.intent.start, call.input.intent.end>>
        /\ current.plan_delta = call.input.plan_delta
        /\ \A other_ref \in AlsoSelected :
               /\ call.settings.select_parallel
               /\ IsSome(StartOnOther(other_ref))
               /\ IsSome(EndOnOther(other_ref))
               /\ ~(Unwrap(StartOnOther(other_ref)) < Unwrap(EndOnOther(other_ref)))
                      => call.settings.select_opposite

\* A Select that added a stroke of the opposite direction and left out a
\* stroke onto which an end of the selection does not project.
C17_Witness ==
    /\ Returned("Select")
    /\ call.settings.select_opposite
    /\ \E other_ref \in AlsoSelected :
           Unwrap(StartOnOther(other_ref)) > Unwrap(EndOnOther(other_ref))
    /\ \E other_ref \in ExistingRefs \ DictKeys(current.selections) :
           ~IsSome(EndOnOther(other_ref))

\* The moved subsections of the last call (a MoveSelection) before any
\* alignment is applied.
MovedSubsections ==
    subsections_moved(call.input.intent.delta, call.input, BuiltStrokes)

\* The maps of moved subsections the loop over the alignments goes through:
\* the first is the map before it, the one behind alignment n is at n + 1.
RECURSIVE AlignmentSteps(_, _)
AlignmentSteps(moved, connector_alignments) ==
    IF connector_alignments = << >> THEN <<moved>>
    ELSE <<moved>> \o AlignmentSteps(apply_alignments(moved, <<Head(connector_alignments)>>),
                                     Tail(connector_alignments))

\* The connector an end of an alignment names, in a map of moved subsections.
ConnectorOf(moved, end) == Unwrap(moved[end[1]][ConnectorField(end[2])])

\* -1 when the old direction of the aligned connector points against the
\* direction of the target, 1 otherwise.
AlignmentSign(aligned, target) ==
    IF Dot(aligned.direction, target.direction) < 0 THEN -1 ELSE 1

\* Alignment applied to the map before gave the map after as C18 says.
AlignedAsStated(before, after, alignment) ==
    LET aligned == ConnectorOf(before, alignment[1])
        target == ConnectorOf(before, alignment[2])
        sign == AlignmentSign(aligned, target)
        result == ConnectorOf(after, alignment[1])
    IN  /\ result.direction = VScale(sign, target.direction)
        /\ result.position =
               VAdd(target.position,
                    VScale(IF sign < 0 THEN 6 ELSE 5, Orthogonal(result.direction)))
        /\ ConnectorOf(after, alignment[2]) = target
        /\ \A ref \in DOMAIN before :
               \A field \in 1..5 :
                   (<<ref, field>> /= <<alignment[1][1], ConnectorField(alignment[1][2])>>)
                       => after[ref][field] = before[ref][field]

\* C18: each alignment gives the aligned connector the direction of the
\* target times the sign of the dot product of its old direction with the
\* target's, and the position of the target plus 6 (sign negative) or 5
\* times the perpendicular of that new direction; every other connector and
\* subsection, the target among them, is as before.
C18_AlignmentSetsDirectionAndPosition ==
    Returned("MoveSelection") =>
        LET applied == AppliedAlignments
            steps == AlignmentSteps(MovedSubsections, applied)
        IN  \A n \in DOMAIN applied : AlignedAsStated(steps[n], steps[n + 1], applied[n])

\* Alignment n of the list had this sign: that of the dot product of the
\* aligned connector's old direction with the target's.
AppliedWithSign(steps, applied, n, sign) ==
    AlignmentSign(ConnectorOf(steps[n], applied[n][1]),
                  ConnectorOf(steps[n], applied[n][2])) = sign

\* A move that applied an alignment to a connector of opposite direction,
\* which it put six from its target.
C18_Witness ==
    /\ Returned("MoveSelection")
    /\ LET applied == AppliedAlignments
           steps == AlignmentSteps(MovedSubsections, applied)
       IN  \E n \in DOMAIN applied :
               /\ AppliedWithSign(steps, applied, n, -1)
               /\ NormSq(VSub(ConnectorOf(steps[n + 1], applied[n][1]).position,
                              ConnectorOf(steps[n], applied[n][2]).position)) = 36

\* A move that applied an alignment to a connector of the same direction,
\* which it put five from its target and elsewhere than it was.
C18_SameDirection ==
    /\ Returned("MoveSelection")
    /\ LET applied == AppliedAlignments
           steps == AlignmentSteps(MovedSubsections, applied)
       IN  \E n \in DOMAIN applied :
               /\ AppliedWithSign(steps, applied, n, 1)
               /\ NormSq(VSub(ConnectorOf(steps[n + 1], applied[n][1]).position,
                              ConnectorOf(steps[n], applied[n][2]).position)) = 25
               /\ ConnectorOf(steps[n + 1], applied[n][1])
                      /= ConnectorOf(steps[n], applied[n][1])

\* Every New(i) among the selected references names a stroke of new_strokes.
SelectionsResolvable ==
    \A ref \in DictKeys(current.selections) :
        ref[1] = "New" => ref[2] < Len(current.plan_delta.new_strokes)

\* From one snapshot to the next new_strokes does not get shorter.
NewStrokesKept ==
    Len(current'.plan_delta.new_strokes) >= Len(current.plan_delta.new_strokes)

\* C19: in every run of calls whose Select and ContinueRoad name existing
\* strokes, every New(i) of the selections has i below the length of
\* new_strokes, and the length of new_strokes never decreases.
C19_SelectionsStayResolvable == []SelectionsResolvable /\ [][NewStrokesKept]_vars

\* A MoveSelection returned a selection of the stroke it pushed last, and a
\* new stroke was selected in its input.
C19_Witness ==
    /\ Returned("MoveSelection")
    /\ Len(result_new_strokes) > Len(input_new_strokes)
    /\ DictHas(current.selections, New(Len(result_new_strokes) - 1))
    /\ \E ref \in DictKeys(input_selections) : ref[1] = "New"

\* A DeleteSelection returned whose input selected a new stroke.
C19_DeletedNewStroke ==
    /\ Returned("DeleteSelection")
    /\ \E ref \in DictKeys(input_selections) : ref[1] = "New"

\* The named strokes of the last call (a ContinueRoad), as indices from 0.
NamedStrokes == {continue_from[e][1] : e \in DOMAIN continue_from}

\* The entries of continue_from that name a stroke, and those of one mode.
EntriesNaming(stroke_idx) == {e \in DOMAIN continue_from : continue_from[e][1] = stroke_idx}
EntriesOfMode(stroke_idx, mode) ==
    {e \in EntriesNaming(stroke_idx) : continue_from[e][2] = mode}

\* old_nodes are, in order, the first nodes (Append) or the last nodes
\* (Prepend) of new_nodes, which has at most gained more nodes than that.
KeptAtEnd(old_nodes, new_nodes, mode, gained) ==
    /\ Len(new_nodes) >= Len(old_nodes)
    /\ Len(new_nodes) <= Len(old_nodes) + gained
    /\ IF mode = "Append"
       THEN SubSeq(new_nodes, 1, Len(old_nodes)) = old_nodes
       ELSE SubSeq(new_nodes, Len(new_nodes) - Len(old_nodes) + 1, Len(new_nodes))
                = old_nodes

\* old_nodes are, in order and next to each other, nodes of new_nodes, with
\* at most this many nodes before them and this many behind them.
KeptInOrder(old_nodes, new_nodes, before, behind) ==
    \E front \in 0..before :
        /\ Len(new_nodes) >= Len(old_nodes) + front
        /\ Len(new_nodes) <= Len(old_nodes) + front + behind
        /\ SubSeq(new_nodes, front + 1, front + Len(old_nodes)) = old_nodes

\* What ContinueRoad leaves alone: strokes_to_destroy, the number of new
\* strokes, and every new stroke it does not name.
ContinueRoadLeavesAlone ==
    /\ current.plan_delta.strokes_to_destroy = call.input.plan_delta.strokes_to_destroy
    /\ Len(result_new_strokes) = Len(input_new_strokes)
    /\ \A k \in DOMAIN input_new_strokes :
           (k - 1) \notin NamedStrokes => result_new_strokes[k] = input_new_strokes[k]

\* C20 as stated: ContinueRoad returns strokes_to_destroy and every stroke
\* it does not name as they were; a stroke it names keeps the nodes it had,
\* in order, as the start (Append) or the end (Prepend) of its nodes, and
\* has at most one node more for each point that was not skipped.
C20_OneNodePerPoint ==
    Returned("ContinueRoad") =>
        /\ ContinueRoadLeavesAlone
        /\ \A e \in DOMAIN continue_from :
               KeptAtEnd(input_new_strokes[continue_from[e][1] + 1],
                         result_new_strokes[continue_from[e][1] + 1],
                         continue_from[e][2],
                         Len(AppliedPoints(additional_points, start_reference_point)))

\* C20 as the code has it: ContinueRoad returns strokes_to_destroy and every
\* stroke it does not name as they were; a stroke it names keeps the nodes
\* it had, in order and next to each other, and has before them at most one
\* node for each point that was not skipped and each Prepend entry naming
\* it, and behind them at most one for each such point and each Append
\* entry naming it.
C20_OneNodePerPointAndEntry ==
    Returned("ContinueRoad") =>
        /\ ContinueRoadLeavesAlone
        /\ \A stroke_idx \in NamedStrokes :
               LET applied == Len(AppliedPoints(additional_points, start_reference_point))
               IN  KeptInOrder(input_new_strokes[stroke_idx + 1],
                               result_new_strokes[stroke_idx + 1],
                               applied * Cardinality(EntriesOfMode(stroke_idx, "Prepend")),
                               applied * Cardinality(EntriesOfMode(stroke_idx, "Append")))

\* A ContinueRoad through two points gave a lane named once, in Prepend
\* mode, two nodes, left a named lane as it was, and did not name a third.
C20_Witness ==
    /\ Returned("ContinueRoad") /\ NamedOnce
    /\ Len(AppliedPoints(additional_points, start_reference_point)) = 2
    /\ \E e \in DOMAIN continue_from :
           /\ continue_from[e][2] = "Prepend"
           /\ Len(result_new_strokes[continue_from[e][1] + 1])
                  = Len(input_new_strokes[continue_from[e][1] + 1]) + 2
    /\ \E e \in DOMAIN continue_from :
           /\ Len(input_new_strokes[continue_from[e][1] + 1]) >= 2
           /\ result_new_strokes[continue_from[e][1] + 1]
                  = input_new_strokes[continue_from[e][1] + 1]
    /\ \E k \in DOMAIN input_new_strokes : (k - 1) \notin NamedStrokes

\* A ContinueRoad gave a lane named twice two nodes for one point.
C20_NamedTwice ==
    /\ Returned("ContinueRoad")
    /\ Len(AppliedPoints(additional_points, start_reference_point)) = 1
    /\ \E stroke_idx \in NamedStrokes :
           /\ Cardinality(EntriesNaming(stroke_idx)) = 2
           /\ Len(result_new_strokes[stroke_idx + 1])
                  = Len(input_new_strokes[stroke_idx + 1]) + 2

\* The last call returned, whatever its intent.
ReturnedAny == outcome = "returned" /\ ~issued /\ calls > 0

\* What the snapshot returned carries as its intent: the input's for
\* MoveSelection and MaximizeSelection, None for every other intent; and a
\* call with intent None returns its input.
IntentKeptOrReset ==
    ReturnedAny =>
        /\ call.input.intent.tag \in {"MoveSelection", "MaximizeSelection"}
               => current.intent = call.input.intent
        /\ call.input.intent.tag \notin {"MoveSelection", "MaximizeSelection"}
               => current.intent = Intent_None
        /\ call.input.intent.tag = "None" => current = call.input

\* A call made on the returned snapshot as it is, with no intent set in
\* between, is a call of the handler that returned it, on that snapshot.
AppliedAgain ==
    (ReturnedAny /\ calls' = calls + 1) =>
        /\ call.input.intent.tag \in {"MoveSelection", "MaximizeSelection"}
        /\ call'.input = current
        /\ call'.input.intent = call.input.intent

\* C21: MoveSelection and MaximizeSelection return the intent they were
\* given, every other intent returns None, an intent of None returns the
\* input; so apply_intent called on a returned snapshot runs the same
\* handler again, and only these two handlers.
C21_MoveAndMaximizeKeepIntent == []IntentKeptOrReset /\ [][AppliedAgain]_vars

\* A MoveSelection returned, with its intent, from a snapshot that an
\* earlier MoveSelection had returned: a built stroke is recorded for
\* destruction in its input.
C21_Witness ==
    /\ ReturnedAny
    /\ call.input.intent.tag = "MoveSelection"
    /\ current.intent = call.input.intent
    /\ call.input.plan_delta.strokes_to_destroy /= << >>
    /\ current.selections /= << >>

\* A call with intent None returned a snapshot that holds selections.
C21_NoneReturnsInput ==
    /\ ReturnedAny
    /\ call.input.intent.tag = "None"
    /\ current.selections /= << >>

====
